---- MODULE Spec2Model ----
(***************************************************************************)
(* Request lifecycle of the design-agent backend: the requirements table,  *)
(* the task_time_logs audit table, the four lifecycle endpoints of         *)
(* api/tasks.py, the cancel/update tools of agent/tools.py and the REST    *)
(* create/patch endpoints of api/requirements.py.                          *)
(*                                                                         *)
(* Time: `now` counts clock ticks.  datetime.utcnow() reads the clock at   *)
(* full resolution; the timestamp column is filled by the database         *)
(* (server_default=func.now(), SQLite CURRENT_TIMESTAMP), which has whole- *)
(* second resolution, so a stored timestamp is the clock truncated to a    *)
(* multiple of TicksPerSecond.  accumulated_hours is kept in ticks (a      *)
(* fixed-point rendering of the float hours: total_seconds()/3600 is a     *)
(* constant rescaling of the tick difference).                             *)
(***************************************************************************)
EXTENDS Integers, Sequences, FiniteSets, TLC

\* ---------------------------------------------------------------- bounds
MaxReq == 1
MaxLogs == 4
MaxNow == 2
TicksPerSecond == 2

\* ------------------------------------------------------------ vocabulary
PENDING == "pending"
IN_PROGRESS == "in_progress"
UNDER_REVIEW == "under_review"
REVISING == "revising"
COMPLETED == "completed"

TaskStatus == {PENDING, IN_PROGRESS, UNDER_REVIEW, REVISING, COMPLETED}

\* identifiers a caller may pass; one names no row until that row is created
CallIds == 1..MaxReq

\* the text a field update writes
NoteText == <<"note">>
CancelNote == "cancelled"

VARIABLES requirements, task_time_logs, now, resp, wall,
          calls, creator_state, turn, heard, sessions

\* the database and the last response, the state of the REST side
db_vars == <<requirements, task_time_logs, now, resp>>

\* the Form-Filling Engine: per conversation the position of its call of
\* CreatorAgent.process and what the call returned; per coroutine frame the
\* local CreatorState of the call
engine_vars == <<calls, creator_state>>

vars ==
    <<requirements, task_time_logs, now, resp, wall, calls, creator_state, turn,
      heard, sessions>>

\* ------------------------------------------------------------- the tables
\* Requirement row: status defaults to pending, the text columns to NULL
\* (additional_notes is a sequence of text pieces, NULL and "" both <<>>:
\* the code reads it through `or ""`).  Of the columns no lifecycle code
\* reads, only additional_notes is carried; a write to another one changes
\* nothing here.
NewRequirement ==
    [additional_notes |-> <<>>, status |-> PENDING]

\* TaskTimeLog row as the database stores it: the timestamp is the server
\* clock at whole-second resolution.
ServerNow(t) == (t \div TicksPerSecond) * TicksPerSecond

\* Column default of TaskTimeLog.accumulated_hours
DefaultAccumulatedHours == 0

TaskTimeLog(rid, action, acc, t) ==
    [requirement_id |-> rid, action |-> action, timestamp |-> ServerNow(t),
     accumulated_hours |-> acc]

\* select(Requirement).where(Requirement.id == rid).scalar_one_or_none()
Exists(rid) == rid \in DOMAIN requirements

\* rows of one request, in insertion (primary key) order
LogsOf(rid) == SelectSeq(task_time_logs, LAMBDA l : l.requirement_id = rid)

\* select(TaskTimeLog).where(requirement_id == rid)
\*   .order_by(timestamp.desc()) ... .first()
\* The order among rows of equal timestamp is not specified by the query, so
\* any row of greatest timestamp may come first; NoLog (None) when there is
\* no row.  A row is named by its position in LogsOf(rid).
NoLog == 0

LastLogCandidates(rid) ==
    LET rows == LogsOf(rid)
        idx == DOMAIN rows
    IN  IF idx = {} THEN {NoLog}
        ELSE {i \in idx : \A j \in idx : rows[j].timestamp <= rows[i].timestamp}

\* variant: the elapsed time is added whatever the action of the row
calculate_accumulated_hours_AlwaysElapsed(rows, last, t) ==
    IF last = NoLog THEN 0
    ELSE rows[last].accumulated_hours + (t - rows[last].timestamp)

\* _calculate_accumulated_hours(last_log), with utcnow() = t
calculate_accumulated_hours(rows, last, t) ==
    IF last = NoLog THEN 0
    ELSE IF rows[last].action \in {"start", "resume"}
         THEN rows[last].accumulated_hours + (t - rows[last].timestamp)
         ELSE rows[last].accumulated_hours

\* variant: the status update is committed on its own, before the audit row
commit_StatusFirst(ok, reqs, logs) ==
    IF ok THEN [requirements |-> reqs, task_time_logs |-> logs]
    ELSE [requirements |-> reqs, task_time_logs |-> task_time_logs]

\* -------------------------------------------------------- the transaction
\* One unit of work: the handler mutates ORM objects and adds rows in its
\* session, then calls db.commit() once.  The flush and COMMIT run in one
\* database transaction; when it fails get_db / get_db_session roll back and
\* re-raise, so nothing of the unit is persisted.
\* a rollback that also discards the newest audit row already stored
commit_RollbackTooFar(ok, reqs, logs) ==
    IF ok THEN [requirements |-> reqs, task_time_logs |-> logs]
    ELSE [requirements |-> requirements,
          task_time_logs |-> SubSeq(task_time_logs, 1, Len(task_time_logs) - 1)]

commit(ok, reqs, logs) ==
    IF ok THEN [requirements |-> reqs, task_time_logs |-> logs]
    ELSE [requirements |-> requirements, task_time_logs |-> task_time_logs]

\* what the call returns: "ok", or the error the handler raises / reports
Respond(code) == resp' = code

Reject(code) ==
    /\ Respond(code)
    /\ UNCHANGED <<requirements, task_time_logs, now>>

\* the handler's writes followed by db.commit()
Persist(ok, reqs, logs) ==
    LET db == commit(ok, reqs, logs)
    IN  /\ requirements' = db.requirements
        /\ task_time_logs' = db.task_time_logs
        /\ Respond(IF ok THEN "ok" ELSE "commit_failed")
        /\ UNCHANGED now

SetStatus(rid, s) == [requirements EXCEPT ![rid].status = s]

\* ------------------------------------------- the Form-Filling Engine, data
\* Two conversations share the CreatorAgent singleton.
Convs == {"A", "B"}

\* A user message is a sequence of words.  "quxiao", "buzuole" and "suanle"
\* stand for the three cancellation keywords of _extract_requirement.
CancelKeywords == {"quxiao", "buzuole", "suanle"}

UserMessages ==
    { <<"yao", "haibao">>, <<"quxiao">>, <<"buzuole">>, <<"haibao", "suanle">> }

\* `keyword in message` for some keyword of the list
Contains(content, keywords) == \E i \in DOMAIN content : content[i] \in keywords

\* Field values.  None and "" are both the empty text: the code tests
\* `if value` / `if not value` only.  NotAString is a truthy value that is
\* not of the declared type of the field (a number where Optional[str] is
\* declared); setattr stores it unvalidated, RequirementFormState(**d)
\* rejects it.
NoValue == ""
NotAString == "<1080>"
Truthy(value) == value # NoValue

\* RequirementFormState: the three required fields are carried; the six
\* optional ones go through the same loop and the same constructor.
FormFields == {"title", "requirement_type", "dimensions"}
RequirementFormState == [f \in FormFields |-> NoValue]

\* what a caller may send as current_form, what the oracle may extract
DraftValues == {NoValue, "a", NotAString}
Drafts == [FormFields -> DraftValues]
Absent == "<absent>"
ExtractedValues == {Absent, NoValue, "b", NotAString}

\* an oracle answer to the extraction prompt: a failure (exception, timeout,
\* unparsable JSON) or a map of fields
ExtractionAnswers ==
    [ok : {TRUE}, extracted : [FormFields -> ExtractedValues]]
      \cup [ok : {FALSE}, extracted : {[f \in FormFields |-> Absent]}]

\* an answer of the Specification Store: a failure or up to k snippets
StoreAnswers ==
    { [ok |-> TRUE, specs |-> <<>>], [ok |-> TRUE, specs |-> <<"spec">>],
      [ok |-> FALSE, specs |-> <<>>] }

\* an oracle answer to the reply prompt: a failure or a text
ReplyAnswers ==
    { [ok |-> TRUE, content |-> <<"reply">>], [ok |-> FALSE, content |-> <<>>] }

CancelReply == <<"yi", "quxiao">>

CreatorState ==
    [messages |-> <<>>, current_form |-> RequirementFormState,
     missing_fields |-> <<>>, design_specs |-> <<>>,
     is_complete |-> FALSE, should_cancel |-> FALSE]

NoResult == [kind |-> "none"]
Raised == [kind |-> "raised"]

\* -------------------------------------- the Form-Filling Engine, the stages
\* process, lines 221-233: a fresh state, the caller's snapshot if the
\* constructor accepts it (else the snapshot is dropped silently), the user
\* message appended
Validates(current_form) == \A f \in FormFields : current_form[f] # NotAString

NewState(user_message, current_form) ==
    [CreatorState EXCEPT
       !.current_form = IF Validates(current_form) THEN current_form
                        ELSE RequirementFormState,
       !.messages = <<[role |-> "user", content |-> user_message]>>]

LastMessage(state) == state.messages[Len(state.messages)]

\* _extract_requirement up to its oracle call: the keyword test
cancel_intent(state) == Contains(LastMessage(state).content, CancelKeywords)

\* the update loop: a key that is present with a truthy value overwrites
update_form(current_form, extracted) ==
    [f \in FormFields |->
        IF extracted[f] # Absent /\ Truthy(extracted[f])
        THEN extracted[f] ELSE current_form[f]]

\* _extract_requirement: a failing or unparsable answer changes nothing
extract_requirement(state, answer) ==
    IF cancel_intent(state) THEN [state EXCEPT !.should_cancel = TRUE]
    ELSE IF ~answer.ok THEN state
    ELSE [state EXCEPT
            !.current_form = update_form(state.current_form, answer.extracted)]

\* _search_design_specs: asks the store when a category is set and the state
\* holds no snippets; a failing store changes nothing
store_queried(state) ==
    Truthy(state.current_form.requirement_type) /\ state.design_specs = <<>>

search_design_specs(state, store) ==
    IF store_queried(state)
    THEN IF store.ok THEN [state EXCEPT !.design_specs = store.specs] ELSE state
    ELSE state

\* a list without dimensions
required_fields_NoDimensions == <<"title", "requirement_type">>

\* a list in another order
required_fields_Reordered == <<"requirement_type", "title", "dimensions">>

\* _check_completeness
required_fields == <<"title", "requirement_type", "dimensions">>

check_completeness(state) ==
    LET missing == SelectSeq(required_fields,
                             LAMBDA f : ~Truthy(state.current_form[f]))
    IN  [state EXCEPT !.missing_fields = missing,
                      !.is_complete = (Len(missing) = 0)]

\* a cancellation that keeps the draft
cancelled_KeepsDraft(state) ==
    [state EXCEPT
       !.messages = Append(@, [role |-> "assistant", content |-> CancelReply]),
       !.missing_fields = <<"title", "requirement_type", "dimensions">>,
       !.is_complete = FALSE,
       !.design_specs = <<>>]

\* _generate_response, the cancellation branch
cancelled(state) ==
    [state EXCEPT
       !.messages = Append(@, [role |-> "assistant", content |-> CancelReply]),
       !.current_form = RequirementFormState,
       !.missing_fields = <<"title", "requirement_type", "dimensions">>,
       !.is_complete = FALSE,
       !.design_specs = <<>>]

\* _generate_response, the oracle's reply appended
replied(state, reply) ==
    [state EXCEPT
       !.messages = Append(@, [role |-> "assistant", content |-> reply.content])]

\* process, lines 241-251: what the call returns
Result(state) ==
    [kind |-> "result",
     response |-> LastMessage(state).content,
     updated_form |-> state.current_form,
     missing_fields |-> state.missing_fields,
     is_complete |-> state.is_complete,
     design_specs |-> state.design_specs]

\* process, lines 221-251, run without interruption
process(user_message, current_form, answer, store, reply) ==
    LET state == check_completeness(search_design_specs(
                     extract_requirement(NewState(user_message, current_form),
                                         answer), store))
    IN  IF state.should_cancel THEN Result(cancelled(state))
        ELSE IF reply.ok THEN Result(replied(state, reply))
        ELSE Raised

\* the state kept on the singleton instead of in the call
Frame_Singleton(c) == "A"

\* the coroutine frame that holds the local `state` of a conversation's call
Frame(c) == c

\* the collaborators a call can ask: the oracle with the extraction prompt,
\* the store, the oracle with the reply prompt
Collaborators == {"extraction_oracle", "spec_store", "reply_oracle"}

\* no call in flight. `asked` is the set of collaborators the call has asked
\* so far; `guided` tells that an earlier call of the conversation returned
\* snippets
NoCall == [pc |-> "idle", user_message |-> <<>>,
           current_form |-> RequirementFormState, asked |-> {},
           guided |-> FALSE, result |-> NoResult]

\* ------------------------------------------ the Session Orchestrator, data
\* An answer of the oracle to the classification prompt: a UserIntent, or a
\* failure (exception, timeout, output that does not validate as UserIntent)
Intents == {"create", "query", "manage", "chat"}
Classifications ==
    [ok : {TRUE}, intent : Intents]
      \cup [ok : {FALSE}, intent : {"<timeout>", "<malformed>"}]

\* str(e) of an exception, a sequence of characters
Chars(n) == [i \in 1..n |-> "x"]
MaxErrorText == 200
ExceptionTexts == {Chars(1), Chars(MaxErrorText), Chars(MaxErrorText + 1)}
NoException == [raised |-> FALSE, text |-> <<>>]
Exception(text) == [raised |-> TRUE, text |-> text]

\* the fixed prefixes of the two handlers' error replies
QueryErrorPrefix == <<"chaxun", "wenti">>
ManagerErrorPrefix == <<"caozuo", "shibai">>

\* what the orchestrator did with the last message: the classification it
\* got, the handler it chose and called, the exception raised inside the
\* handler (if any) and what came back to the transport
NoTurn ==
    [classification |-> [ok |-> FALSE, intent |-> "<none>"],
     target_agent |-> "none", invoked |-> {}, tools |-> <<>>,
     exception |-> NoException, result |-> NoResult]

\* a tool invocation as the handler makes it: the tool's name, the request
\* id and the field it is given (NoId and "" where it takes none)
ToolCall(name, requirement_id, field) ==
    [name |-> name, requirement_id |-> requirement_id, field |-> field]

\* Two database sessions, each the unit of work of one call in flight.  A
\* session that has read and checked its Request holds the operation, the id
\* and the row as it read it, until its commit.
Sessions == {"s1", "s2"}
Operations == {"start", "submit", "revision", "complete", "cancel"}
NoSession ==
    [pc |-> "idle", op |-> "none", rid |-> 0,
     seen |-> [status |-> PENDING, additional_notes |-> <<>>]]

\* what the transport last handed to the orchestrator: the message and the
\* draft that came with it
NoMessage == [user_message |-> <<>>, current_form |-> RequirementFormState]

\* ------------------------------------------------------------------ Init
Init ==
    /\ requirements = <<>>
    /\ task_time_logs = <<>>
    /\ now = 0
    /\ resp = "none"
    /\ wall = <<>>
    /\ calls = [c \in Convs |-> NoCall]
    /\ creator_state = [c \in Convs |-> CreatorState]
    /\ turn = NoTurn
    /\ heard = NoMessage
    /\ sessions = [s \in Sessions |-> NoSession]

\* the clock advances between and during calls
Tick ==
    /\ now < MaxNow
    /\ now' = now + 1
    /\ UNCHANGED <<requirements, task_time_logs, resp>>

\* ------------------------------------------------------- REST, requirements
\* create_requirement: a row with status pending; the id is the next key
create_requirement(ok) ==
    /\ Len(requirements) < MaxReq
    /\ Persist(ok, Append(requirements, NewRequirement), task_time_logs)

\* variant: the PATCH schema also declares status
RequirementUpdateFields_WithStatus ==
    {"title", "requirement_type", "dimensions", "deadline", "copywriting",
     "reference_images", "additional_notes", "designer_id", "estimated_hours",
     "status"}

\* RequirementUpdate: the fields the PATCH schema declares.  Keys of the
\* request body outside the schema are dropped by the schema before
\* model_dump(exclude_unset=True).
RequirementUpdateFields ==
    {"title", "requirement_type", "dimensions", "deadline", "copywriting",
     "reference_images", "additional_notes", "designer_id", "estimated_hours"}

\* request bodies a client may send, each the set of its keys; the value
\* sent under a key is UpdateValue(key)
PatchBodies ==
    { {"additional_notes"}, {"title"}, {"status"}, {"additional_notes", "status"} }

UpdateValue(fld) == IF fld = "status" THEN COMPLETED ELSE NoteText

\* setattr(requirement, field, value), on the columns this model carries
SetField(row, fld, value) ==
    IF fld \in DOMAIN row THEN [row EXCEPT ![fld] = value] ELSE row

\* for field, value in update_data.items(): setattr(requirement, field, value)
ApplyPatch(row, body) ==
    LET update_data == body \cap RequirementUpdateFields
    IN  [f \in DOMAIN row |->
            IF f \in update_data THEN SetField(row, f, UpdateValue(f))[f]
            ELSE row[f]]

\* PATCH /{requirement_id}
api_update_requirement(rid, body, ok) ==
    IF ~Exists(rid) THEN Reject("not_found")
    ELSE Persist(ok,
                 [requirements EXCEPT ![rid] = ApplyPatch(requirements[rid], body)],
                 task_time_logs)

\* ------------------------------------------------------ lifecycle, tasks.py
\* variants of the guards: start also from revising; submit from anything
\* but under_review; complete from anything not completed
StartValidFrom_WithRevising == {PENDING, REVISING}
SubmitValidFrom_NotUnderReview == TaskStatus \ {UNDER_REVIEW}
CompleteValidFrom_NotCompleted == TaskStatus \ {COMPLETED}

StartValidFrom == {PENDING}
SubmitValidFrom == {IN_PROGRESS, REVISING}
RevisionValidFrom == {UNDER_REVIEW}
CompleteValidFrom == {UNDER_REVIEW}

\* the audit row each handler builds
StartLog(rid, t) == TaskTimeLog(rid, "start", 0, t)
PauseLog(rid, accumulated, t) == TaskTimeLog(rid, "pause", accumulated, t)
ResumeLog(rid, t) == TaskTimeLog(rid, "resume", DefaultAccumulatedHours, t)
CompleteLog(rid, t) == TaskTimeLog(rid, "complete", DefaultAccumulatedHours, t)

start_task(rid, ok) ==
    IF ~Exists(rid) THEN Reject("not_found")
    ELSE IF requirements[rid].status \notin StartValidFrom
    THEN Reject("invalid_transition")
    ELSE /\ Len(task_time_logs) < MaxLogs
         /\ Persist(ok, SetStatus(rid, IN_PROGRESS),
                    Append(task_time_logs, StartLog(rid, now)))

submit_for_review(rid, ok) ==
    IF ~Exists(rid) THEN Reject("not_found")
    ELSE IF requirements[rid].status \notin SubmitValidFrom
    THEN Reject("invalid_transition")
    ELSE /\ Len(task_time_logs) < MaxLogs
         /\ \E last_log \in LastLogCandidates(rid) :
              LET accumulated ==
                    calculate_accumulated_hours(LogsOf(rid), last_log, now)
              IN  Persist(ok, SetStatus(rid, UNDER_REVIEW),
                          Append(task_time_logs, PauseLog(rid, accumulated, now)))

request_revision(rid, ok) ==
    IF ~Exists(rid) THEN Reject("not_found")
    ELSE IF requirements[rid].status \notin RevisionValidFrom
    THEN Reject("invalid_transition")
    ELSE /\ Len(task_time_logs) < MaxLogs
         /\ Persist(ok, SetStatus(rid, REVISING),
                    Append(task_time_logs, ResumeLog(rid, now)))

complete_task(rid, ok) ==
    IF ~Exists(rid) THEN Reject("not_found")
    ELSE IF requirements[rid].status \notin CompleteValidFrom
    THEN Reject("invalid_transition")
    ELSE /\ Len(task_time_logs) < MaxLogs
         /\ Persist(ok, SetStatus(rid, COMPLETED),
                    Append(task_time_logs, CompleteLog(rid, now)))

\* ------------------------------------------------------- Manage, tools.py
\* update_requirement tool: only these fields may be written
allowed_fields == {"title", "dimensions", "copywriting", "additional_notes"}

\* fields a Manage caller may name
ToolFields == {"title", "additional_notes", "status"}

tool_update_requirement(rid, fld, value, ok) ==
    IF fld \notin allowed_fields THEN Reject("field_not_allowed")
    ELSE IF ~Exists(rid) THEN Reject("not_found")
    ELSE Persist(ok,
                 [requirements EXCEPT ![rid] = SetField(requirements[rid], fld, value)],
                 task_time_logs)

\* variant: cancel_requirement without its completed check
CancelRefusedFrom_None == {}

\* statuses from which cancel_requirement refuses
CancelRefusedFrom == {COMPLETED}

\* requirement.status = completed; additional_notes = (notes or "") + note
CancelledRow(row) ==
    [row EXCEPT !.status = COMPLETED,
                !.additional_notes = Append(row.additional_notes, CancelNote)]

cancel_requirement(rid, ok) ==
    IF ~Exists(rid) THEN Reject("not_found")
    ELSE IF requirements[rid].status \in CancelRefusedFrom
    THEN Reject("cannot_cancel_completed")
    ELSE Persist(ok,
                 [requirements EXCEPT ![rid] = CancelledRow(requirements[rid])],
                 task_time_logs)

\* -------------------------------------------------------------------- Next
\* the conversational side is idle while the REST side is exercised
ChannelIdle == UNCHANGED <<wall, calls, creator_state, turn, heard>>
Idle == ChannelIdle /\ UNCHANGED sessions

\* one call of the REST side or of a tool, or a tick of the clock
Next ==
    \/ Tick /\ Idle
    \/ \E ok \in BOOLEAN : create_requirement(ok) /\ Idle
    \/ \E rid \in CallIds, body \in PatchBodies, ok \in BOOLEAN :
         api_update_requirement(rid, body, ok) /\ Idle
    \/ \E rid \in CallIds, ok \in BOOLEAN : start_task(rid, ok) /\ Idle
    \/ \E rid \in CallIds, ok \in BOOLEAN :
         submit_for_review(rid, ok) /\ Idle
    \/ \E rid \in CallIds, ok \in BOOLEAN :
         request_revision(rid, ok) /\ Idle
    \/ \E rid \in CallIds, ok \in BOOLEAN : complete_task(rid, ok) /\ Idle
    \/ \E rid \in CallIds, ok \in BOOLEAN :
         cancel_requirement(rid, ok) /\ Idle
    \/ \E rid \in CallIds, fld \in ToolFields, ok \in BOOLEAN :
         tool_update_requirement(rid, fld, UpdateValue(fld), ok) /\ Idle

Spec == Init /\ [][Next]_vars

\* the lifecycle endpoints alone: no cancellation, no field update
LifecycleNext ==
    \/ Tick /\ Idle
    \/ \E ok \in BOOLEAN : create_requirement(ok) /\ Idle
    \/ \E rid \in CallIds, ok \in BOOLEAN : start_task(rid, ok) /\ Idle
    \/ \E rid \in CallIds, ok \in BOOLEAN :
         submit_for_review(rid, ok) /\ Idle
    \/ \E rid \in CallIds, ok \in BOOLEAN :
         request_revision(rid, ok) /\ Idle
    \/ \E rid \in CallIds, ok \in BOOLEAN : complete_task(rid, ok) /\ Idle

LifecycleSpec == Init /\ [][LifecycleNext]_vars

\* ------------------------------------------------- calls that run together
\* The handlers are coroutines on one event loop, each with a session of its
\* own: a call gives way at its SELECT and at its commit, so another call can
\* run between the two.  The SELECT takes no lock and the row has no version
\* column; the flush at commit writes the attributes the handler assigned.
ValidFrom(op) ==
    CASE op = "start" -> StartValidFrom
      [] op = "submit" -> SubmitValidFrom
      [] op = "revision" -> RevisionValidFrom
      [] op = "complete" -> CompleteValidFrom
      [] op = "cancel" -> TaskStatus \ CancelRefusedFrom

TargetStatus(op) ==
    CASE op = "start" -> IN_PROGRESS
      [] op = "submit" -> UNDER_REVIEW
      [] op = "revision" -> REVISING
      [] op = "complete" -> COMPLETED
      [] op = "cancel" -> COMPLETED

\* the call up to its status check: the response when the check fails,
\* otherwise the session goes on holding what it read
session_read(s, op, rid) ==
    /\ sessions[s].pc = "idle"
    /\ IF ~Exists(rid) THEN Reject("not_found") /\ UNCHANGED sessions
       ELSE IF requirements[rid].status \notin ValidFrom(op)
       THEN /\ Reject(IF op = "cancel" THEN "cannot_cancel_completed"
                      ELSE "invalid_transition")
            /\ UNCHANGED sessions
       ELSE /\ sessions' = [sessions EXCEPT ![s] =
                              [pc |-> "checked", op |-> op, rid |-> rid,
                               seen |-> requirements[rid]]]
            /\ UNCHANGED <<requirements, task_time_logs, now, resp>>
    /\ ChannelIdle

\* the rest of the call: the assignments, the audit row, db.commit().  The
\* UPDATE carries the status the handler assigned (and, for cancel, the
\* notes it built from the row it read), whatever the row holds by now.
session_commit(s, ok) ==
    LET op == sessions[s].op
        rid == sessions[s].rid
        reqs == IF op = "cancel"
                THEN [requirements EXCEPT ![rid] = CancelledRow(sessions[s].seen)]
                ELSE SetStatus(rid, TargetStatus(op))
    IN  /\ sessions[s].pc = "checked"
        /\ op # "cancel" => Len(task_time_logs) < MaxLogs
        /\ \E last_log \in LastLogCandidates(rid) :
              LET accumulated ==
                    calculate_accumulated_hours(LogsOf(rid), last_log, now)
                  row == CASE op = "start" -> <<StartLog(rid, now)>>
                           [] op = "submit" -> <<PauseLog(rid, accumulated, now)>>
                           [] op = "revision" -> <<ResumeLog(rid, now)>>
                           [] op = "complete" -> <<CompleteLog(rid, now)>>
                           [] op = "cancel" -> <<>>
              IN  Persist(ok, reqs, task_time_logs \o row)
        /\ sessions' = [sessions EXCEPT ![s] = NoSession]
        /\ ChannelIdle

ConcurrentNext ==
    \/ Tick /\ Idle
    \/ \E ok \in BOOLEAN : create_requirement(ok) /\ Idle
    \/ \E s \in Sessions, op \in Operations, rid \in CallIds :
         session_read(s, op, rid)
    \/ \E s \in Sessions, ok \in BOOLEAN : session_commit(s, ok)

ConcurrentSpec == Init /\ [][ConcurrentNext]_vars

\* The same calls, observed with a stopwatch: wall[i] is the reading of the
\* clock (datetime.utcnow() resolution, not the stored whole-second
\* timestamp) during the call that inserted audit row i.  The program keeps
\* no such value; the observer does.
RecordWall ==
    /\ wall' = IF Len(task_time_logs') > Len(task_time_logs)
               THEN Append(wall, now)
               ELSE wall
    /\ UNCHANGED <<calls, creator_state, turn, heard, sessions>>

WallNext ==
    \/ Tick /\ RecordWall
    \/ \E ok \in BOOLEAN : create_requirement(ok) /\ RecordWall
    \/ \E rid \in CallIds, body \in PatchBodies, ok \in BOOLEAN :
         api_update_requirement(rid, body, ok) /\ RecordWall
    \/ \E rid \in CallIds, ok \in BOOLEAN : start_task(rid, ok) /\ RecordWall
    \/ \E rid \in CallIds, ok \in BOOLEAN :
         submit_for_review(rid, ok) /\ RecordWall
    \/ \E rid \in CallIds, ok \in BOOLEAN :
         request_revision(rid, ok) /\ RecordWall
    \/ \E rid \in CallIds, ok \in BOOLEAN : complete_task(rid, ok) /\ RecordWall
    \/ \E rid \in CallIds, ok \in BOOLEAN :
         cancel_requirement(rid, ok) /\ RecordWall
    \/ \E rid \in CallIds, fld \in ToolFields, ok \in BOOLEAN :
         tool_update_requirement(rid, fld, UpdateValue(fld), ok) /\ RecordWall

WallSpec == Init /\ [][WallNext]_vars

\* ------------------------------------- the Form-Filling Engine, the calls
\* CreatorAgent.process is a coroutine: it runs until it awaits the oracle
\* (the extraction prompt, then the reply prompt), and calls of other
\* conversations run meanwhile.  The store is asked synchronously.
NoAnswer == [ok |-> FALSE, extracted |-> [f \in FormFields |-> Absent]]

EngineOnly ==
    UNCHANGED <<requirements, task_time_logs, now, resp, wall, turn, heard,
                sessions>>

\* the call is over: its result is with the caller (who also knows what it
\* sent), its frame is gone
Returns(c, user_message, current_form, asked, result) ==
    /\ calls' = [calls EXCEPT ![c] =
                   [pc |-> "idle", user_message |-> user_message,
                    current_form |-> current_form, asked |-> asked,
                    guided |-> \/ calls[c].guided
                               \/ /\ result.kind = "result"
                                  /\ result.design_specs # <<>>,
                    result |-> result]]
    /\ creator_state' = [creator_state EXCEPT ![Frame(c)] = CreatorState]

\* process from its first line to the first await: on a cancellation keyword
\* no oracle is asked and the call runs to its end
process_begin(c, user_message, current_form, store) ==
    /\ calls[c].pc = "idle"
    /\ LET state == NewState(user_message, current_form)
       IN  IF cancel_intent(state)
           THEN LET marked == extract_requirement(state, NoAnswer)
                IN  Returns(c, user_message, current_form,
                            IF store_queried(marked)
                            THEN {"spec_store"} ELSE {},
                            Result(cancelled(check_completeness(
                                search_design_specs(marked, store)))))
           ELSE /\ creator_state' = [creator_state EXCEPT ![Frame(c)] = state]
                /\ calls' = [calls EXCEPT ![c] =
                               [pc |-> "extract", user_message |-> user_message,
                                current_form |-> current_form,
                                asked |-> {"extraction_oracle"},
                                guided |-> calls[c].guided,
                                result |-> NoResult]]
    /\ EngineOnly

\* the extraction answer arrives: the update loop, the store, the
\* completeness check, then the reply prompt is sent
extract_return(c, answer, store) ==
    /\ calls[c].pc = "extract"
    /\ LET extracted == extract_requirement(creator_state[Frame(c)], answer)
       IN  /\ creator_state' =
                 [creator_state EXCEPT ![Frame(c)] =
                    check_completeness(search_design_specs(extracted, store))]
           /\ calls' =
                 [calls EXCEPT
                    ![c].pc = "respond",
                    ![c].asked =
                        @ \cup (IF store_queried(extracted)
                                THEN {"spec_store"} ELSE {})
                          \cup {"reply_oracle"}]
    /\ EngineOnly

\* the reply arrives and process returns; a failing oracle raises out of
\* _generate_response and out of process (no handler on the way)
respond_return(c, reply) ==
    /\ calls[c].pc = "respond"
    /\ Returns(c, calls[c].user_message, calls[c].current_form,
               calls[c].asked,
               IF reply.ok
               THEN Result(replied(creator_state[Frame(c)], reply))
               ELSE Raised)
    /\ EngineOnly

\* one conversation, every input
EngineNext ==
    \/ \E user_message \in UserMessages, current_form \in Drafts,
          store \in StoreAnswers :
         process_begin("A", user_message, current_form, store)
    \/ \E answer \in ExtractionAnswers, store \in StoreAnswers :
         extract_return("A", answer, store)
    \/ \E reply \in ReplyAnswers : respond_return("A", reply)

EngineSpec == Init /\ [][EngineNext]_vars

\* two conversations whose calls interleave, a few inputs each
FewMessages == { <<"yao", "haibao">>, <<"quxiao">> }
FewDrafts ==
    { RequirementFormState,
      [RequirementFormState EXCEPT !.title = "a", !.requirement_type = "a"] }
FewAnswers ==
    { NoAnswer,
      [ok |-> TRUE, extracted |-> [NoAnswer.extracted EXCEPT !.title = "b"]] }

SharedNext ==
    \/ \E c \in Convs, user_message \in FewMessages, current_form \in FewDrafts,
          store \in StoreAnswers :
         process_begin(c, user_message, current_form, store)
    \/ \E c \in Convs, answer \in FewAnswers, store \in StoreAnswers :
         extract_return(c, answer, store)
    \/ \E c \in Convs, reply \in ReplyAnswers : respond_return(c, reply)

SharedSpec == Init /\ [][SharedNext]_vars

\* the turns of one conversation: the caller sends back, with each message,
\* the draft of the last reply it received (the request carries a message, a
\* draft and a conversation id, nothing else)
Snapshot(c) ==
    IF calls[c].result.kind = "result" THEN calls[c].result.updated_form
    ELSE calls[c].current_form

TurnsNext ==
    \/ \E user_message \in UserMessages, store \in StoreAnswers :
         process_begin("A", user_message, Snapshot("A"), store)
    \/ \E answer \in ExtractionAnswers, store \in StoreAnswers :
         extract_return("A", answer, store)
    \/ \E reply \in ReplyAnswers : respond_return("A", reply)

TurnsSpec == Init /\ [][TurnsNext]_vars

\* ---------------------------------------------------- the Intent Router
\* the router with a route of its own for chat
intent_to_agent_ChatOwn ==
    [create |-> "creator", query |-> "query", manage |-> "manager",
     chat |-> "chat"]

intent_to_agent ==
    [create |-> "creator", query |-> "query", manage |-> "manager",
     chat |-> "creator"]

\* SupervisorAgent.route: the mapped name, creator for an unknown intent and
\* for any exception
route(classification) ==
    IF ~classification.ok THEN "creator"
    ELSE IF classification.intent \in DOMAIN intent_to_agent
    THEN intent_to_agent[classification.intent]
    ELSE "creator"

\* ------------------------------------------- the Query and Manage handlers
\* Messages: "quxiao" is the cancel keyword; "gai", "gengxin", "xiugai" the
\* update keywords; "biaoti", "chicun" name title and dimensions; "guifan"
\* asks for guidance; "xuqiu" names the requests; "zhuangtai" the status;
\* a numeral is a request id.
ChatMessages ==
    { <<"yao", "haibao">>, <<"quxiao">>, <<"quxiao", "xuqiu", "1">>,
      <<"xuqiu", "1", "biaoti", "gai">>, <<"xuqiu", "2", "chicun", "xiugai">>,
      <<"1", "gengxin">>, <<"1", "zhuangtai">>, <<"zhuangtai">>,
      <<"guifan">>, <<"wode", "xuqiu">> }

Numerals == <<"1", "2", "3">>
NoId == 0

\* re.search(r'\d+', user_message): the first number of the message
FirstNumber(user_message) ==
    LET at == {i \in DOMAIN user_message :
                 \E n \in DOMAIN Numerals : Numerals[n] = user_message[i]}
    IN  IF at = {} THEN NoId
        ELSE LET first == CHOOSE i \in at : \A j \in at : i <= j
             IN  CHOOSE n \in DOMAIN Numerals : Numerals[n] = user_message[first]

\* str(e) without the slice
Truncated_Whole(text) == text

\* str(e)[:200]
Truncated(text) ==
    IF Len(text) <= MaxErrorText THEN text ELSE SubSeq(text, 1, MaxErrorText)

\* an envelope that carries guidance
Envelope_WithGuidance(response) ==
    [kind |-> "result", response |-> response,
     updated_form |-> RequirementFormState, missing_fields |-> <<>>,
     is_complete |-> FALSE, design_specs |-> <<"spec">>]

\* the envelope both handlers build around a reply text
Envelope(response) ==
    [kind |-> "result", response |-> response,
     updated_form |-> RequirementFormState, missing_fields |-> <<>>,
     is_complete |-> FALSE, design_specs |-> <<>>]

\* the orchestrator's record of a turn that went to `agent`, which invoked
\* `tools` on its way
Handled(classification, agent, tools, exception, result) ==
    turn' = [classification |-> classification, target_agent |-> route(classification),
             invoked |-> {agent}, tools |-> tools, exception |-> exception,
             result |-> result]

\* a tool was called in its own unit of work: its text is the reply, unless
\* the unit raised (the commit failed), which the handler's except clause
\* turns into the prefixed, truncated text
ToolReply(classification, agent, tool, prefix, text) ==
    IF resp' = "commit_failed"
    THEN Handled(classification, agent, <<tool>>, Exception(text),
                 Envelope(prefix \o Truncated(text)))
    ELSE Handled(classification, agent, <<tool>>, NoException,
                 Envelope(<<"tool", resp'>>))

NoToolCalled == UNCHANGED <<requirements, task_time_logs, now, resp>>

\* a handler that looks for the update keywords first, for the cancellation
\* keyword next, and for the identifier only inside the tools
manager_process_UpdateFirst(classification, user_message, ok, text) ==
    LET req_id == FirstNumber(user_message)
        Reply(response) ==
            /\ Handled(classification, "manager", <<>>, NoException,
                       Envelope(response))
            /\ NoToolCalled
        Tool(name, field) ==
            ToolReply(classification, "manager", ToolCall(name, req_id, field),
                      ManagerErrorPrefix, text)
    IN  IF /\ Contains(user_message, {"gai", "gengxin", "xiugai"})
           /\ Contains(user_message, {"biaoti"})
        THEN /\ tool_update_requirement(req_id, "title", NoteText, ok)
             /\ Tool("update_requirement", "title")
        ELSE IF /\ Contains(user_message, {"gai", "gengxin", "xiugai"})
                /\ Contains(user_message, {"chicun"})
        THEN /\ tool_update_requirement(req_id, "dimensions", NoteText, ok)
             /\ Tool("update_requirement", "dimensions")
        ELSE IF Contains(user_message, {"quxiao"})
        THEN cancel_requirement(req_id, ok) /\ Tool("cancel_requirement", "")
        ELSE IF req_id = NoId THEN Reply(<<"need_id">>)
        ELSE Reply(<<"help">>)

\* ManagerAgent.process
manager_process(classification, user_message, ok, text) ==
    LET req_id == FirstNumber(user_message)
        Reply(response) ==
            /\ Handled(classification, "manager", <<>>, NoException,
                       Envelope(response))
            /\ NoToolCalled
        Tool(name, field) ==
            ToolReply(classification, "manager", ToolCall(name, req_id, field),
                      ManagerErrorPrefix, text)
    IN  IF req_id = NoId THEN Reply(<<"need_id">>)
        ELSE IF Contains(user_message, {"quxiao"})
        THEN cancel_requirement(req_id, ok) /\ Tool("cancel_requirement", "")
        ELSE IF Contains(user_message, {"gai", "gengxin", "xiugai"})
        THEN IF Contains(user_message, {"biaoti"})
             THEN /\ tool_update_requirement(req_id, "title", NoteText, ok)
                  /\ Tool("update_requirement", "title")
             ELSE IF Contains(user_message, {"chicun"})
             THEN /\ tool_update_requirement(req_id, "dimensions", NoteText, ok)
                  /\ Tool("update_requirement", "dimensions")
             ELSE Reply(<<"supported", "biaoti", "chicun">>)
        ELSE Reply(<<"help">>)

\* QueryAgent.process: it reads, and answers; db_ok is whether the read (or,
\* in the guidance branch, the oracle) answers rather than raises.  The
\* requester filter of query_requirements is not modelled: every row is the
\* caller's.
query_process(classification, user_message, db_ok, text) ==
    LET req_id == FirstNumber(user_message)
        Reply(tools, response) ==
            Handled(classification, "query", tools, NoException,
                    Envelope(response))
        Caught(tools) ==
            Handled(classification, "query", tools, Exception(text),
                    Envelope(QueryErrorPrefix \o Truncated(text)))
        search == <<ToolCall("search_design_specs", NoId, "")>>
        list == <<ToolCall("query_requirements", NoId, "")>>
        status == <<ToolCall("get_task_status", req_id, "")>>
    IN  /\ NoToolCalled
        /\ IF Contains(user_message, {"guifan", "jianyi", "zenme", "ruhe"})
           THEN IF db_ok THEN Reply(search, <<"answer">>) ELSE Caught(search)
           ELSE IF Contains(user_message, {"xuqiu", "renwu", "liebiao"})
           THEN IF ~db_ok THEN Caught(list)
                ELSE IF requirements = <<>>
                THEN Reply(list, <<"no_requirements">>)
                ELSE Reply(list, <<"found">>)
           ELSE IF Contains(user_message, {"zhuangtai", "jindu"})
           THEN IF req_id = NoId THEN Reply(<<>>, <<"need_id">>)
                ELSE IF ~db_ok THEN Caught(status)
                ELSE IF Exists(req_id)
                THEN Reply(status, <<"status", requirements[req_id].status>>)
                ELSE Reply(status, <<"tool", "not_found">>)
           ELSE Reply(<<>>, <<"menu">>)

\* an engine that cancels the request a cancellation message names
creator_process_CancelsRequest(classification, user_message, current_form, answer, store, reply) ==
    LET result == process(user_message, current_form, answer, store, reply)
        req_id == FirstNumber(user_message)
    IN  /\ Handled(classification, "creator", <<>>,
                   IF result = Raised THEN Exception(<<>>) ELSE NoException,
                   result)
        /\ IF Contains(user_message, CancelKeywords) /\ req_id # NoId
           THEN cancel_requirement(req_id, TRUE)
           ELSE NoToolCalled

\* the Form-Filling Engine called by the orchestrator; when the reply oracle
\* fails, the exception leaves process and the orchestrator, and the
\* transport closes the channel (or answers 500) without a reply
creator_process(classification, user_message, current_form, answer, store, reply) ==
    LET result == process(user_message, current_form, answer, store, reply)
    IN  /\ Handled(classification, "creator", <<>>,
                   IF result = Raised THEN Exception(<<>>) ELSE NoException,
                   result)
        /\ NoToolCalled

\* ------------------------------------------------ the Session Orchestrator
\* MultiAgentOrchestrator.process: route, then exactly one branch
orchestrator_process(user_message, current_form, classification) ==
    LET target_agent == route(classification)
    IN  /\ IF target_agent = "creator"
           THEN \E answer \in FewAnswers, store \in StoreAnswers,
                   reply \in ReplyAnswers :
                  creator_process(classification, user_message, current_form,
                                  answer, store, reply)
           ELSE IF target_agent = "query"
           THEN \E db_ok \in BOOLEAN, text \in ExceptionTexts :
                  query_process(classification, user_message, db_ok, text)
           ELSE IF target_agent = "manager"
           THEN \E ok \in BOOLEAN, text \in ExceptionTexts :
                  manager_process(classification, user_message, ok, text)
           ELSE \E answer \in FewAnswers, store \in StoreAnswers,
                   reply \in ReplyAnswers :
                  creator_process(classification, user_message, current_form,
                                  answer, store, reply)
        /\ UNCHANGED <<wall, calls, creator_state, sessions>>

\* requests are created over REST; messages arrive over the chat channel
ChatNext ==
    \/ \E ok \in BOOLEAN : create_requirement(ok) /\ Idle
    \/ \E user_message \in ChatMessages, current_form \in FewDrafts,
          classification \in Classifications :
         /\ orchestrator_process(user_message, current_form, classification)
         /\ UNCHANGED heard

ChatSpec == Init /\ [][ChatNext]_vars

\* the command handlers, with the message kept by an observer: requests are
\* created and started over REST; every message is classified query or
\* manage
CommandMessages ==
    ChatMessages \cup
      { <<"xuqiu", "1", "zhuangtai">>, <<"1", "jindu">>,
        <<"quxiao", "1", "biaoti", "gai">>, <<"1", "biaoti", "chicun", "gai">>,
        <<"quxiao", "1", "2">>, <<"2", "1", "chicun", "gengxin">>,
        <<"biaoti", "gai">>, <<"xuqiu", "1">> }

Commands == [ok : {TRUE}, intent : {"query", "manage"}]

Hear(user_message, current_form) ==
    heard' = [user_message |-> user_message, current_form |-> current_form]

CommandNext ==
    \/ \E ok \in BOOLEAN : create_requirement(ok) /\ Idle
    \/ \E rid \in CallIds, ok \in BOOLEAN : start_task(rid, ok) /\ Idle
    \/ \E user_message \in CommandMessages, current_form \in FewDrafts,
          classification \in Commands :
         /\ orchestrator_process(user_message, current_form, classification)
         /\ Hear(user_message, current_form)

CommandSpec == Init /\ [][CommandNext]_vars



TypeOK ==
    /\ Len(requirements) <= MaxReq
    /\ \A i \in DOMAIN requirements : requirements[i].status \in TaskStatus
    /\ Len(task_time_logs) <= MaxLogs
    /\ now \in 0..MaxNow

\* ================================================================ claims
StatusOf(rid) == requirements[rid].status
NotesOf(rid) == requirements[rid].additional_notes

\* the transition graph of the lifecycle table
LifecycleEdges ==
    { <<PENDING, IN_PROGRESS>>, <<IN_PROGRESS, UNDER_REVIEW>>,
      <<REVISING, UNDER_REVIEW>>, <<UNDER_REVIEW, REVISING>>,
      <<UNDER_REVIEW, COMPLETED>> }

\* the step is a call of the named lifecycle endpoint on rid
IsStart(rid) == \E ok \in BOOLEAN : start_task(rid, ok)
IsSubmit(rid) == \E ok \in BOOLEAN : submit_for_review(rid, ok)
IsRevision(rid) == \E ok \in BOOLEAN : request_revision(rid, ok)
IsComplete(rid) == \E ok \in BOOLEAN : complete_task(rid, ok)
IsCancel(rid) == \E ok \in BOOLEAN : cancel_requirement(rid, ok)
IsLifecycle(rid) ==
    IsStart(rid) \/ IsSubmit(rid) \/ IsRevision(rid) \/ IsComplete(rid)

\* the step appends exactly one audit row, for rid, with the given action
AppendsOne(rid, action) ==
    /\ Len(task_time_logs') = Len(task_time_logs) + 1
    /\ SubSeq(task_time_logs', 1, Len(task_time_logs)) = task_time_logs
    /\ task_time_logs'[Len(task_time_logs')].requirement_id = rid
    /\ task_time_logs'[Len(task_time_logs')].action = action

NewRow == task_time_logs'[Len(task_time_logs')]

\* C1: every change of a Request's status is an edge of the lifecycle graph
\* taken by that edge's endpoint, or a cancel taking a non-completed Request
\* to completed; no other operation changes a status.
C1_StatusFollowsGraph ==
    [][\A r \in DOMAIN requirements :
         StatusOf(r) # StatusOf(r)' =>
            \/ /\ <<StatusOf(r), StatusOf(r)'>> \in LifecycleEdges
               /\ IsLifecycle(r)
            \/ /\ StatusOf(r) # COMPLETED
               /\ StatusOf(r)' = COMPLETED
               /\ IsCancel(r)]_vars

\* a Request that went pending -> in_progress -> under_review -> revising ->
\* under_review, with a field update on the way
C1_Witness ==
    /\ Exists(1)
    /\ StatusOf(1) = UNDER_REVIEW
    /\ NotesOf(1) = NoteText
    /\ Len(LogsOf(1)) = 4

\* C2: a lifecycle action attempted on a Request whose status is outside the
\* action's valid-from set is rejected and leaves status and audit rows as
\* they were (every step is such a rejection, or is no such attempt).
RejectedUnchanged ==
    /\ resp' = "invalid_transition"
    /\ requirements' = requirements
    /\ task_time_logs' = task_time_logs

C2_InvalidTransitionRejected ==
    [][\/ RejectedUnchanged
       \/ \A r \in DOMAIN requirements :
             /\ ~(StatusOf(r) \notin {PENDING} /\ IsStart(r))
             /\ ~(StatusOf(r) \notin {IN_PROGRESS, REVISING} /\ IsSubmit(r))
             /\ ~(StatusOf(r) \notin {UNDER_REVIEW} /\ IsRevision(r))
             /\ ~(StatusOf(r) \notin {UNDER_REVIEW} /\ IsComplete(r))]_vars

\* a rejected call on a Request that is still pending (complete, submit or
\* request-revision from pending)
C2_Witness ==
    /\ Exists(1)
    /\ StatusOf(1) = PENDING
    /\ resp = "invalid_transition"
    /\ task_time_logs = <<>>

\* C3: start succeeds exactly when the Request exists, is pending (and the
\* repository commit goes through); then the status is in_progress and one
\* audit row is appended, action start, accumulated_hours 0.
C3_Start ==
    [][\A r \in CallIds, ok \in BOOLEAN :
         start_task(r, ok) =>
            /\ (resp' = "ok") <=> (Exists(r) /\ StatusOf(r) = PENDING /\ ok)
            /\ (resp' = "ok") =>
                  /\ StatusOf(r)' = IN_PROGRESS
                  /\ AppendsOne(r, "start")
                  /\ NewRow.accumulated_hours = 0]_vars

C3_Witness ==
    /\ Exists(1)
    /\ StatusOf(1) = IN_PROGRESS
    /\ resp = "ok"
    /\ Len(LogsOf(1)) = 1
    /\ LogsOf(1)[1].action = "start"

\* the accumulated-hours rule of the lifecycle table, read off one audit row
RuleHours(row, t) ==
    IF row.action \in {"start", "resume"}
    THEN row.accumulated_hours + (t - row.timestamp)
    ELSE row.accumulated_hours

\* the most recent audit rows of a Request: those of greatest timestamp
MostRecent(rid) ==
    {i \in DOMAIN LogsOf(rid) :
        \A j \in DOMAIN LogsOf(rid) :
            LogsOf(rid)[j].timestamp <= LogsOf(rid)[i].timestamp}

LastRowIn(rid, actions) ==
    LET rows == SelectSeq(LogsOf(rid), LAMBDA l : l.action \in actions)
    IN  rows[Len(rows)]

HasRowIn(rid, actions) ==
    \E i \in DOMAIN LogsOf(rid) : LogsOf(rid)[i].action \in actions

AllActions == {"start", "pause", "resume", "complete"}

\* C5: request-revision succeeds exactly from under_review; then the status
\* is revising and the appended resume row carries the accumulated_hours of
\* the audit row before it.
C5_RevisionCarries ==
    [][\A r \in CallIds, ok \in BOOLEAN :
         request_revision(r, ok) =>
            /\ (resp' = "ok") <=> (Exists(r) /\ StatusOf(r) = UNDER_REVIEW /\ ok)
            /\ (resp' = "ok") =>
                  /\ StatusOf(r)' = REVISING
                  /\ AppendsOne(r, "resume")
                  /\ HasRowIn(r, AllActions) =>
                        NewRow.accumulated_hours =
                           LastRowIn(r, AllActions).accumulated_hours]_vars

\* C6: complete succeeds exactly from under_review; then the status is
\* completed and the appended complete row has the accumulated_hours of the
\* Request's last pause row.
C6_CompleteCarries ==
    [][\A r \in CallIds, ok \in BOOLEAN :
         complete_task(r, ok) =>
            /\ (resp' = "ok") <=> (Exists(r) /\ StatusOf(r) = UNDER_REVIEW /\ ok)
            /\ (resp' = "ok") =>
                  /\ StatusOf(r)' = COMPLETED
                  /\ AppendsOne(r, "complete")
                  /\ HasRowIn(r, {"pause"}) =>
                        NewRow.accumulated_hours =
                           LastRowIn(r, {"pause"}).accumulated_hours]_vars

\* C7: the accumulated_hours of a Request's pause and complete rows, in
\* insertion order, never decrease.
C7_BillableMonotone ==
    \A r \in DOMAIN requirements :
        LET rows == SelectSeq(LogsOf(r), LAMBDA l : l.action \in {"pause", "complete"})
        IN  \A i, j \in DOMAIN rows :
               i < j => rows[i].accumulated_hours <= rows[j].accumulated_hours

\* C8: cancel on an existing Request that is not completed sets it completed,
\* appends the cancellation note and adds no audit row (the commit going
\* through); cancel on a completed Request reports cannot-cancel-completed and
\* changes neither the Request nor the audit log.
C8_Cancel ==
    [][\A r \in DOMAIN requirements, ok \in BOOLEAN :
         cancel_requirement(r, ok) =>
            /\ (StatusOf(r) # COMPLETED /\ ok) =>
                  /\ resp' = "ok"
                  /\ StatusOf(r)' = COMPLETED
                  /\ NotesOf(r)' = Append(NotesOf(r), CancelNote)
                  /\ task_time_logs' = task_time_logs
            /\ StatusOf(r) = COMPLETED =>
                  /\ resp' = "cannot_cancel_completed"
                  /\ requirements' = requirements
                  /\ task_time_logs' = task_time_logs]_vars

\* a Request cancelled from under_review, then cancelled again
C8_Witness ==
    /\ Exists(1)
    /\ StatusOf(1) = COMPLETED
    /\ resp = "cannot_cancel_completed"
    /\ NotesOf(1) # <<>>
    /\ NotesOf(1)[Len(NotesOf(1))] = CancelNote
    /\ Len(LogsOf(1)) = 2
    /\ LogsOf(1)[2].action = "pause"

\* C9: once a Request is completed no call changes its status again.
C9_CompletedTerminal ==
    [][\A r \in DOMAIN requirements :
         StatusOf(r) = COMPLETED => StatusOf(r)' = COMPLETED]_vars

\* a lifecycle call refused on a Request completed by complete_task
C9_Witness ==
    /\ Exists(1)
    /\ StatusOf(1) = COMPLETED
    /\ resp = "invalid_transition"
    /\ HasRowIn(1, {"complete"})

\* C10: a lifecycle call persists its status change and its audit row
\* together or not at all, also when the commit fails.
C10_TransitionAtomic ==
    [][\A r \in CallIds :
         IsLifecycle(r) =>
            /\ (requirements' # requirements)
                  <=> (Len(task_time_logs') = Len(task_time_logs) + 1)
            /\ (requirements' = requirements)
                  <=> (task_time_logs' = task_time_logs)
            /\ (resp' # "ok") =>
                  (requirements' = requirements /\ task_time_logs' = task_time_logs)]_vars

\* a commit has failed on a Request that is under way: its persisted status
\* and audit rows still pair up
C10_Witness ==
    /\ Exists(1)
    /\ resp = "commit_failed"
    /\ StatusOf(1) = REVISING
    /\ Len(LogsOf(1)) = 3

\* ------------------------------------------------------------------------
\* C11: the audit log of a Request is append-only: across any call (lifecycle
\* action, cancel, tool or REST field update) the Request's audit rows before
\* the call are a prefix of its audit rows after it.
IsPrefix(s, t) == Len(s) <= Len(t) /\ SubSeq(t, 1, Len(s)) = s

C11_AuditAppendOnly ==
    [][\A r \in CallIds : IsPrefix(LogsOf(r), LogsOf(r)')]_vars

\* a Request cancelled while under review: its two audit rows are still there
C11_Witness ==
    /\ Exists(1)
    /\ StatusOf(1) = COMPLETED
    /\ NotesOf(1) # <<>>
    /\ Len(LogsOf(1)) = 2
    /\ LogsOf(1)[1].action = "start"
    /\ LogsOf(1)[2].action = "pause"

\* ------------------------------------------------------------------------
\* C12: for a Request started from pending and then submitted for review, the
\* pause row's accumulated_hours is at least 0 and at most the wall-clock time
\* that elapsed between the start call and the submit call.
RowsOf(rid) == {i \in DOMAIN task_time_logs : task_time_logs[i].requirement_id = rid}

\* rows i < j are the first two audit rows of their Request: start, then pause
StartThenPause(i, j) ==
    /\ i < j
    /\ task_time_logs[i].requirement_id = task_time_logs[j].requirement_id
    /\ \A k \in RowsOf(task_time_logs[i].requirement_id) : k >= i /\ (k <= i \/ k >= j)
    /\ task_time_logs[i].action = "start"
    /\ task_time_logs[j].action = "pause"

C12_PauseWithinWallClock ==
    \A i, j \in DOMAIN task_time_logs :
        (StartThenPause(i, j) /\ j \in DOMAIN wall) =>
            /\ task_time_logs[j].accumulated_hours >= 0
            /\ task_time_logs[j].accumulated_hours <= wall[j] - wall[i]

\* ======================================== claims, the Form-Filling Engine
DraftIn(c) == calls[c].current_form
StateOf(c) == creator_state[Frame(c)]
ResultOf(c) == calls[c].result
IsResult(c) == ResultOf(c).kind = "result"

\* the step is the return of a non-cancellation call of conversation c
IsRespondReturn(c) == \E reply \in ReplyAnswers : respond_return(c, reply)

\* ------------------------------------------------------------------------
\* C13: monotonic enrichment: in a non-cancellation turn every field that is
\* set in the incoming draft is set in the returned draft, and a field that
\* the extraction map lacks, or holds with a falsy value, keeps its value.
C13_MonotonicEnrichment ==
    [][\A c \in Convs :
         /\ (IsRespondReturn(c) /\ IsResult(c)') =>
               \A f \in FormFields :
                  Truthy(DraftIn(c)[f]) => Truthy(ResultOf(c)'.updated_form[f])
         /\ \A answer \in ExtractionAnswers, store \in StoreAnswers :
               extract_return(c, answer, store) =>
                  \A f \in FormFields :
                     (answer.extracted[f] = Absent \/ ~Truthy(answer.extracted[f]))
                        => StateOf(c)'.current_form[f] = StateOf(c).current_form[f]]_vars

\* ------------------------------------------------------------------------
\* C14: in every result the engine returns, is_complete is true exactly when
\* title, requirement_type and dimensions of the returned draft are all
\* non-empty, and then no field is reported missing.
Set(form, f) == form[f] # ""

C14_CompleteIffAllThree ==
    \A c \in Convs :
       IsResult(c) =>
          LET form == ResultOf(c).updated_form
              all == Set(form, "title") /\ Set(form, "requirement_type")
                        /\ Set(form, "dimensions")
          IN  /\ ResultOf(c).is_complete <=> all
              /\ all => ResultOf(c).missing_fields = <<>>

\* a returned draft with all three fields
C14_Witness ==
    /\ IsResult("A")
    /\ ResultOf("A").is_complete
    /\ ResultOf("A").missing_fields = <<>>
    /\ \A f \in FormFields : Set(ResultOf("A").updated_form, f)

\* ------------------------------------------------------------------------
\* C15: a turn whose message contains one of the three cancellation keywords
\* returns the empty draft, missing_fields [title, requirement_type,
\* dimensions], is_complete false, no snippets and the fixed confirmation,
\* whatever the incoming draft holds.
HasCancelKeyword(content) ==
    \E i \in DOMAIN content : content[i] \in {"quxiao", "buzuole", "suanle"}

C15_CancelResets ==
    \A c \in Convs :
       (calls[c].pc = "idle" /\ HasCancelKeyword(calls[c].user_message)) =>
          ResultOf(c) =
             [kind |-> "result",
              response |-> CancelReply,
              updated_form |-> [f \in FormFields |-> ""],
              missing_fields |-> <<"title", "requirement_type", "dimensions">>,
              is_complete |-> FALSE,
              design_specs |-> <<>>]

\* a cancellation that arrived with a complete draft
C15_Witness ==
    /\ calls["A"].pc = "idle"
    /\ calls["A"].user_message = <<"haibao", "suanle">>
    /\ \A f \in FormFields : calls["A"].current_form[f] = "a"
    /\ IsResult("A")
    /\ ResultOf("A").response = CancelReply

\* ------------------------------------------------------------------------
\* C16: in every non-cancellation result, missing_fields lists exactly the
\* required fields that are empty in the returned draft, in the order title,
\* requirement_type, dimensions.
C16_MissingFieldsExact ==
    \A c \in Convs :
       (IsResult(c) /\ ~HasCancelKeyword(calls[c].user_message)) =>
          ResultOf(c).missing_fields =
             SelectSeq(<<"title", "requirement_type", "dimensions">>,
                       LAMBDA f : ~Set(ResultOf(c).updated_form, f))

\* only the category is known: title and dimensions are asked for, in order
C16_Witness ==
    /\ IsResult("A")
    /\ ~HasCancelKeyword(calls["A"].user_message)
    /\ Set(ResultOf("A").updated_form, "requirement_type")
    /\ ResultOf("A").missing_fields = <<"title", "dimensions">>

\* ------------------------------------------------------------------------
\* C20: conversation isolation on the shared engine: a step of one
\* conversation's call leaves the other conversation's call, state and result
\* as they are, and what a call returns is what process returns when run
\* alone on that call's message and draft, for some answers of the oracle and
\* the store.
IsStepOf(c) ==
    \/ \E user_message \in FewMessages, current_form \in FewDrafts,
          store \in StoreAnswers :
         process_begin(c, user_message, current_form, store)
    \/ \E answer \in FewAnswers, store \in StoreAnswers :
         extract_return(c, answer, store)
    \/ IsRespondReturn(c)

AloneResults(user_message, current_form) ==
    { process(user_message, current_form, answer, store, reply) :
        answer \in FewAnswers, store \in StoreAnswers, reply \in ReplyAnswers }

C20_Isolation ==
    [][\A c \in Convs :
         IsStepOf(c) =>
            /\ \A d \in Convs \ {c} :
                  calls'[d] = calls[d] /\ StateOf(d)' = StateOf(d)
            /\ calls'[c].pc = "idle" =>
                  ResultOf(c)' \in AloneResults(calls'[c].user_message,
                                                calls'[c].current_form)]_vars

\* both calls are waiting for their reply, holding different drafts
C20_Witness ==
    /\ calls["A"].pc = "respond"
    /\ calls["B"].pc = "respond"
    /\ StateOf("A").current_form # StateOf("B").current_form
    /\ StateOf("A").current_form.title = "b"
    /\ StateOf("B").current_form.title = "a"

\* ========================================= claims, the Session Orchestrator
TurnTaken == turn.invoked # {}

\* ------------------------------------------------------------------------
\* C17: every turn handed to the orchestrator ends with a result envelope
\* that carries some reply text, whichever oracle call failed on the way; no
\* exception reaches the transport.
C17_AlwaysReplies ==
    TurnTaken =>
       /\ turn.result.kind = "result"
       /\ turn.result.response # <<>>

C19_ErrorsCaughtAndBounded ==
    (TurnTaken /\ turn.target_agent \in {"query", "manager"}
       /\ turn.exception.raised) =>
       LET prefix == IF turn.target_agent = "query" THEN QueryErrorPrefix
                     ELSE ManagerErrorPrefix
           text == turn.exception.text
           reply == turn.result.response
       IN  /\ turn.result.kind = "result"
           /\ Len(reply) <= Len(prefix) + 200
           /\ Len(reply) = Len(prefix) + (IF Len(text) < 200 THEN Len(text) ELSE 200)
           /\ \A i \in DOMAIN reply :
                 reply[i] = IF i <= Len(prefix) THEN prefix[i]
                            ELSE text[i - Len(prefix)]

\* a failed commit under cancel whose message is longer than the limit
C19_Witness ==
    /\ turn.target_agent = "manager"
    /\ turn.exception.raised
    /\ Len(turn.exception.text) > 200
    /\ resp = "commit_failed"
    /\ turn.result.kind = "result"
    /\ Len(turn.result.response) = Len(ManagerErrorPrefix) + 200

\* ============================ claims, the stages of the Form-Filling Engine
\* a call that has returned and whose message held a cancellation keyword
CancellationTurn(c) ==
    /\ calls[c].pc = "idle"
    /\ IsResult(c)
    /\ Contains(calls[c].user_message, CancelKeywords)

\* ------------------------------------------------------------------------
\* C21: a cancellation turn returns the reset draft and, from the keyword
\* test to its return, asks neither the oracle nor the Specification Store,
\* whatever category the incoming draft carries.
C21_CancelAsksNobody ==
    \A c \in Convs :
        CancellationTurn(c) =>
            /\ ResultOf(c).updated_form = RequirementFormState
            /\ calls[c].asked = {}

\* the step is the arrival of a failed or unparsable extraction answer
IsFailedExtraction(c) ==
    \E answer \in {a \in ExtractionAnswers : ~a.ok}, store \in StoreAnswers :
        extract_return(c, answer, store)

\* ------------------------------------------------------------------------
\* C22: when the extraction answer fails or cannot be parsed, the draft
\* after the extraction stage is exactly the incoming draft, and the turn
\* goes on to the store, the completeness check and the reply prompt.
C22_ExtractionFailureKeepsDraft ==
    [][\A c \in Convs :
          IsFailedExtraction(c) =>
             /\ creator_state'[Frame(c)].current_form = DraftIn(c)
             /\ calls'[c].pc = "respond"
             /\ "reply_oracle" \in calls'[c].asked]_vars

\* the largest number of snippets one query asks the store for
MaxSnippets == 3

\* ------------------------------------------------------------------------
\* C23: over the turns of one conversation, each rehydrated from the
\* snapshot the previous one returned, the store is asked only in a turn
\* where the category is set and no earlier turn returned snippets, and the
\* state holds at most 3 snippets.
C23_GuidanceCachedOnce ==
    \A c \in Convs :
        calls[c].pc = "respond" =>
            /\ "spec_store" \in calls[c].asked =>
                  /\ Truthy(StateOf(c).current_form.requirement_type)
                  /\ ~calls[c].guided
            /\ Len(StateOf(c).design_specs) <= MaxSnippets

\* ==================================== claims, the Query and Manage handlers
ManagerTurn == TurnTaken /\ turn.invoked = {"manager"}
QueryTurn == TurnTaken /\ turn.invoked = {"query"}
HeardId == FirstNumber(heard.user_message)

\* the step is a call of the REST side, not a turn of the channel
IsRestCall ==
    /\ Idle
    /\ \/ \E ok \in BOOLEAN : create_requirement(ok)
       \/ \E rid \in CallIds : IsStart(rid)

\* ------------------------------------------------------------------------
\* C24: a Manage call whose message holds no number returns the usage hint,
\* invokes no tool and leaves the repository as it was, whatever action
\* keywords the message holds.
C24_NoIdNoRepository ==
    [][(/\ ~IsRestCall
        /\ turn'.invoked = {"manager"}
        /\ FirstNumber(heard'.user_message) = NoId) =>
          /\ turn'.result = Envelope(<<"need_id">>)
          /\ turn'.tools = <<>>
          /\ requirements' = requirements
          /\ task_time_logs' = task_time_logs]_vars

\* a cancellation keyword without a number, and a request still pending
C24_Witness ==
    /\ ManagerTurn
    /\ heard.user_message = <<"quxiao">>
    /\ turn.result.response = <<"need_id">>
    /\ Exists(1)
    /\ StatusOf(1) = PENDING

\* the actions a message matches, and the write the highest of them makes
Matched(user_message) ==
    (IF Contains(user_message, {"quxiao"}) THEN {"cancel"} ELSE {})
      \cup (IF /\ Contains(user_message, {"gai", "gengxin", "xiugai"})
               /\ Contains(user_message, {"biaoti"})
            THEN {"title"} ELSE {})
      \cup (IF /\ Contains(user_message, {"gai", "gengxin", "xiugai"})
               /\ Contains(user_message, {"chicun"})
            THEN {"dimensions"} ELSE {})

HighestWrite(user_message) ==
    LET req_id == FirstNumber(user_message)
    IN  IF "cancel" \in Matched(user_message)
        THEN ToolCall("cancel_requirement", req_id, "")
        ELSE IF "title" \in Matched(user_message)
        THEN ToolCall("update_requirement", req_id, "title")
        ELSE ToolCall("update_requirement", req_id, "dimensions")

\* ------------------------------------------------------------------------
\* C25, as stated: every Manage call whose message holds a number invokes
\* exactly one write, the one of the highest action the message matches.
C25_ExactlyOneWrite ==
    (ManagerTurn /\ HeardId # NoId) =>
       /\ Len(turn.tools) = 1
       /\ Matched(heard.user_message) # {} =>
             turn.tools = <<HighestWrite(heard.user_message)>>

\* C25, amended: a Manage call whose message holds a number invokes at most
\* one write: none when the message matches no action, otherwise exactly the
\* write of the highest action matched (cancel, then title update, then
\* dimension update), on the first number of the message.
C25_AtMostOneWriteByPrecedence ==
    (ManagerTurn /\ HeardId # NoId) =>
       turn.tools = IF Matched(heard.user_message) = {} THEN <<>>
                    ELSE <<HighestWrite(heard.user_message)>>

\* a message that matches cancel and title update, with two numbers: the
\* first request is cancelled
C25_Witness ==
    /\ ManagerTurn
    /\ heard.user_message \in { <<"quxiao", "1", "biaoti", "gai">>,
                                <<"quxiao", "1", "2">> }
    /\ turn.tools = <<ToolCall("cancel_requirement", 1, "")>>
    /\ Exists(1)
    /\ StatusOf(1) = COMPLETED
    /\ resp = "ok"

\* ------------------------------------------------------------------------
\* C26: a Query message with a status keyword and a number makes exactly one
\* task-status read, for that number, and replies with that request's
\* status; a message of no family gets the capability menu and no read.
C26_StatusFamilyReadsStatus ==
    QueryTurn =>
       /\ (/\ Contains(heard.user_message, {"zhuangtai", "jindu"})
           /\ HeardId # NoId) =>
             /\ turn.tools = <<ToolCall("get_task_status", HeardId, "")>>
             /\ (~turn.exception.raised /\ Exists(HeardId)) =>
                   turn.result.response = <<"status", StatusOf(HeardId)>>
       /\ ~Contains(heard.user_message,
                    {"guifan", "jianyi", "zenme", "ruhe", "xuqiu", "renwu",
                     "liebiao", "zhuangtai", "jindu"}) =>
             /\ turn.result.response = <<"menu">>
             /\ turn.tools = <<>>

\* ------------------------------------------------------------------------
\* C30: a turn that went to the Query or the Manage handler returns an
\* envelope with the empty draft, no missing fields, is_complete false and
\* no guidance, whether the handler succeeded or caught an exception, and
\* whatever draft came with the message.
C30_CommandEnvelopeEmpty ==
    (TurnTaken /\ turn.invoked \subseteq {"query", "manager"}) =>
       /\ turn.result.kind = "result"
       /\ turn.result.updated_form = RequirementFormState
       /\ turn.result.missing_fields = <<>>
       /\ turn.result.is_complete = FALSE
       /\ turn.result.design_specs = <<>>

\* a failed cancel that came with a draft holding a title and a category
C30_Witness ==
    /\ ManagerTurn
    /\ heard.current_form # RequirementFormState
    /\ turn.exception.raised
    /\ turn.result.updated_form = RequirementFormState

\* ------------------------------------------------------------------------
\* C29: a turn that went to the Form-Filling Engine, by classification or by
\* the router's default, a draft cancellation naming a request included,
\* leaves every request and the audit log as they were.
C29_EngineLeavesRepository ==
    [][(~IsRestCall /\ turn'.invoked = {"creator"}) =>
          /\ requirements' = requirements
          /\ task_time_logs' = task_time_logs]_vars

\* a draft cancellation that the router's default sent to the engine, with
\* a request in the repository, still pending
C29_Witness ==
    /\ turn.invoked = {"creator"}
    /\ ~turn.classification.ok
    /\ turn.result.kind = "result"
    /\ turn.result.response = CancelReply
    /\ Exists(1)
    /\ StatusOf(1) = PENDING
    /\ task_time_logs = <<>>

\* ================================= claims, status and audit log together
\* the action of the row of a request that was inserted last
LastAction(rid) == LogsOf(rid)[Len(LogsOf(rid))].action

\* the rows the last_log lookup of submit_for_review can return
Found(rid) == LastLogCandidates(rid)

\* ------------------------------------------------------------------------
\* C27: in every run of create, start, submit, request-revision and complete
\* a pending request has no audit row, and otherwise the last row is a start
\* row when in_progress, a resume row when revising, a pause row when
\* under_review, a complete row when completed; and whenever submit can
\* succeed, the row its lookup finds is a start or a resume row.
C27_StatusMatchesAudit ==
    \A r \in DOMAIN requirements :
        /\ StatusOf(r) = PENDING => LogsOf(r) = <<>>
        /\ StatusOf(r) # PENDING => LogsOf(r) # <<>>
        /\ StatusOf(r) = IN_PROGRESS => LastAction(r) = "start"
        /\ StatusOf(r) = REVISING => LastAction(r) = "resume"
        /\ StatusOf(r) = UNDER_REVIEW => LastAction(r) = "pause"
        /\ StatusOf(r) = COMPLETED => LastAction(r) = "complete"
        /\ StatusOf(r) \in SubmitValidFrom =>
              \A last_log \in Found(r) :
                  /\ last_log # NoLog
                  /\ LogsOf(r)[last_log].action \in {"start", "resume"}

\* the start rows of a request
StartRows(rid) == {i \in DOMAIN LogsOf(rid) : LogsOf(rid)[i].action = "start"}

\* ------------------------------------------------------------------------
\* C28: two calls on one request that run together leave what some order of
\* the two, one after the other, leaves; stated by the two consequences the
\* claim names: a request never has a second start row (two starts never
\* both succeed), and a request that is completed, by cancellation or
\* otherwise, never has another status again.
C28_Linearizable ==
    [][\A r \in DOMAIN requirements :
          /\ Cardinality(StartRows(r)') <= 1
          /\ StatusOf(r) = COMPLETED => StatusOf(r)' = COMPLETED]_vars
====
